---- MODULE Spec2Model ----
(***************************************************************************)
(* Model of the Stable Diffusion image generator (src/app.py): prompt      *)
(* validation, the session rate limiter, the generation client with its    *)
(* retry loop and demo (fallback) mode, and the record store made of the   *)
(* prompts table and the generated_images directory.                       *)
(*                                                                         *)
(* A Streamlit interaction re-executes the script: load_sample_data() and  *)
(* then main().  One script run is a chain of steps selected by pc.  Spec  *)
(* is a whole browser session; ValSpec, RLSpec, GenSpec and StoreSpec call *)
(* one component each, with inputs a session does not get round to.        *)
(***************************************************************************)
EXTENDS Integers, Sequences, FiniteSets, TLC

VARIABLES
    now,      \* wall clock in seconds (time.time / datetime.now)
    token,    \* st.secrets has HUGGING_FACE_API_TOKEN
    sess,     \* st.session_state: a function from the keys present to values
    files,    \* generated_images/: timestamp of the file name -> stored image
    rows,     \* table prompts
    seq,      \* AUTOINCREMENT high-water mark of prompts.id
    cache,    \* st.cache_data entry of get_all_prompts: <<>> or <<[at, val]>>
    pc,       \* position of the script run
    ev,       \* the widget event that triggered the run
    loc,      \* local variables of the run
    log,      \* observable events of the run, in order
    made,     \* history: id -> the row as inserted by save_image
    evals,    \* history: id -> <<>> or <<[score, feedback] of the last
              \* update_evaluation call for the id>>
    win,      \* history of the rate limiter's current window
    acq,      \* history: <<>> or <<the last check_rate_limit call>>
    raw,      \* input of validate_prompt
    vres,     \* <<>> or <<result of validate_prompt(raw)>>
    snap,     \* history: <<>> or <<[at, rows]>>, the table as it was at the
              \* last SELECT of get_all_prompts
    path,     \* input of get_image_base64
    b64,      \* <<>> or <<result of get_image_base64(path)>>
    report    \* <<>> or <<the evaluation report of tab4>>

vars == <<now, token, sess, files, rows, seq, cache, pc, ev, loc, log,
          made, evals, win, acq, raw, vres, snap, path, b64, report>>

(***************************************************************************)
(* Program constants.                                                      *)
(***************************************************************************)
MaxPromptLen == 500
RateWindow == 60
RateLimit == 5
MaxAttempts == 3
BackoffBase == 2
DemoDelay == 3
PlaceholderSide == 512
MaxImageSide == 4096
HttpOk == 200
HttpTooManyRequests == 429
CacheTtl == 60
NumSamples == 3
SampleScoreLo == 6
SampleScoreHi == 9

(***************************************************************************)
(* Bounds of the model.                                                    *)
(***************************************************************************)
StartTime == 100     \* clock value when the process starts
MaxTime == 163       \* RLSpec: the clock stops here
MaxStoreTime == 101  \* StoreSpec: the clock stops here
MaxStart == 108      \* Spec: no script run starts after this instant
MaxId == 4           \* Spec: prompts.id never exceeds this
MaxRecords == 2      \* StoreSpec: save_image is called at most this often
MaxPad == 2          \* ValSpec: lengths of the short runs of characters
MaxCount == 6        \* Spec: request_count never exceeds this
MaxCalls == 7        \* RLSpec: request_count never exceeds this
MaxListTime == 161   \* ListSpec: the clock stops here
MaxListing == 3      \* AggSpec: rows in the listing the report is made from
MaxSegments == 3     \* PathSpec: segments of the paths read
MaxFlagId == 7       \* FlagSpec: ids are assigned up to this one
MaxFlagCount == 2    \* FlagSpec: submissions of the session

(***************************************************************************)
(* Strings are sequences of characters.  A character is the string that    *)
(* holds it, or, where a TLA+ string cannot hold it, its code point as     *)
(* "U+" and four hexadecimal digits.                                       *)
(***************************************************************************)
\* The characters str.strip() and str.split() take for whitespace: those
\* for which str.isspace() is true.
Whitespace ==
    {" ", "\t", "\n", "\r", "\f", "U+000B", "U+001C", "U+001D", "U+001E",
     "U+001F", "U+0085", "U+00A0", "U+1680", "U+2000", "U+2001", "U+2002",
     "U+2003", "U+2004", "U+2005", "U+2006", "U+2007", "U+2008", "U+2009",
     "U+200A", "U+2028", "U+2029", "U+202F", "U+205F", "U+3000"}

IsSpace(c) == c \in Whitespace

Rep(c, n) == [i \in 1..n |-> c]

\* str.strip(): drop leading and trailing whitespace.
strip(s) ==
    IF \A i \in 1..Len(s) : IsSpace(s[i]) THEN <<>>
    ELSE LET first == CHOOSE i \in 1..Len(s) :
                          ~IsSpace(s[i]) /\ \A j \in 1..(i - 1) : IsSpace(s[j])
             last == CHOOSE i \in 1..Len(s) :
                          ~IsSpace(s[i]) /\ \A j \in (i + 1)..Len(s) : IsSpace(s[j])
         IN SubSeq(s, first, last)

\* str.split() of s[lo..hi]: the maximal runs of non-whitespace, in order.
\* Halving keeps the recursion depth logarithmic in the length.
RECURSIVE split_range(_, _, _)
split_range(s, lo, hi) ==
    IF lo > hi THEN <<>>
    ELSE IF lo = hi THEN (IF IsSpace(s[lo]) THEN <<>> ELSE << <<s[lo]>> >>)
    ELSE LET mid == (lo + hi) \div 2
             L == split_range(s, lo, mid)
             R == split_range(s, mid + 1, hi)
         IN IF ~IsSpace(s[mid]) /\ ~IsSpace(s[mid + 1])
            THEN SubSeq(L, 1, Len(L) - 1) \o << L[Len(L)] \o R[1] >> \o Tail(R)
            ELSE L \o R

split(s) == split_range(s, 1, Len(s))

\* sep.join(words[lo..hi])
RECURSIVE join_range(_, _, _, _)
join_range(sep, words, lo, hi) ==
    IF lo > hi THEN <<>>
    ELSE IF lo = hi THEN words[lo]
    ELSE LET mid == (lo + hi) \div 2
         IN join_range(sep, words, lo, mid) \o sep
                \o join_range(sep, words, mid + 1, hi)

join(sep, words) == join_range(sep, words, 1, Len(words))

ErrEmpty == "Prompt cannot be empty."
ErrTooLong == "Prompt is too long (max 500 characters)."

\* Variant: the length is measured after trimming.
TooLong_m(prompt) == Len(strip(prompt)) > MaxPromptLen

\* The length test of validate_prompt, on the raw prompt.
TooLong(prompt) == Len(prompt) > MaxPromptLen

\* The cleaned prompt returned on success.
cleaned_prompt(prompt) == join(<<" ">>, split(strip(prompt)))

\* validate_prompt: value is <<>> for None, <<cleaned>> otherwise; error is
\* the st.error message ("" when none is shown).
validate_prompt(prompt) ==
    IF prompt = <<>> \/ Len(strip(prompt)) = 0
    THEN [value |-> <<>>, error |-> ErrEmpty]
    ELSE IF TooLong(prompt)
    THEN [value |-> <<>>, error |-> ErrTooLong]
    ELSE [value |-> <<cleaned_prompt(prompt)>>, error |-> ""]

(***************************************************************************)
(* st.session_state                                                        *)
(***************************************************************************)
Has(ss, k) == k \in DOMAIN ss

Put(ss, k, v) == [x \in DOMAIN ss \cup {k} |-> IF x = k THEN v ELSE ss[x]]

Del(ss, k) == [x \in DOMAIN ss \ {k} |-> ss[x]]

Get(ss, k, default) == IF Has(ss, k) THEN ss[k] ELSE default

EmptySession == [x \in {} |-> 0]

\* main, first run of a session: clear() and the four initial keys.
FreshSession ==
    [reset_session |-> TRUE, demo_mode |-> FALSE,
     last_request_time |-> 0, request_count |-> 0]

(***************************************************************************)
(* check_rate_limit                                                        *)
(***************************************************************************)
\* The reset test: more than RateWindow seconds since last_request_time.
WindowExpired(ss, t) == t - ss["last_request_time"] > RateWindow

\* The value stored in last_request_time by a call at time t.
StampOf(ss, t) == t

\* Variant: the limit is off by one.
WithinLimit_m(count) == ~(count > RateLimit + 1)

\* The verdict for the incremented count.
WithinLimit(count) == ~(count > RateLimit)

check_rate_limit(ss, t) ==
    LET s0 == IF ~Has(ss, "last_request_time")
              THEN Put(Put(ss, "last_request_time", 0), "request_count", 0)
              ELSE ss
        s1 == IF WindowExpired(s0, t) THEN Put(s0, "request_count", 0) ELSE s0
        s2 == Put(s1, "request_count", s1["request_count"] + 1)
        s3 == Put(s2, "last_request_time", StampOf(s2, t))
    IN [ss |-> s3,
        reset |-> WindowExpired(s0, t),
        allowed |-> WithinLimit(s3["request_count"])]

(***************************************************************************)
(* generate_image                                                          *)
(***************************************************************************)
Styles == {"realistic", "cyberpunk", "cartoon"}

model_id(style) ==
    IF style = "cyberpunk" THEN "black-forest-labs/FLUX.1-dev"
    ELSE IF style = "cartoon" THEN "black-forest-labs/FLUX.1-dev"
    ELSE "stabilityai/stable-diffusion-xl-base-1.0"

\* Image.new('RGB', (512, 512), ...)
Placeholder ==
    [w |-> PlaceholderSide, h |-> PlaceholderSide, kind |-> "placeholder"]

\* Image.open(io.BytesIO(response.content))
Decoded(resp) == [w |-> resp.w, h |-> resp.h, kind |-> "decoded"]

\* Sizes of the images the remote service may return.
RemoteDims ==
    {<<MaxImageSide, MaxImageSide>>, <<MaxImageSide + 1, PlaceholderSide>>,
     <<PlaceholderSide, MaxImageSide + 1>>}

\* Statuses other than 200 and 429 the remote service may answer with.
OtherStatuses == {204, 503}

\* body: "image" for image bytes, "json" for a JSON object with an error
\* field, "text" for a body response.json() cannot parse.
Responses ==
    {[status |-> HttpOk, w |-> d[1], h |-> d[2], body |-> "image"] :
        d \in RemoteDims}
    \cup {[status |-> s, w |-> 0, h |-> 0, body |-> b] :
            s \in {HttpTooManyRequests} \cup OtherStatuses,
            b \in {"json", "text"}}

\* Variant: a missing token does not switch the session to demo mode.
TokenCheck_m(ss, tok) == ss

\* generate_image line 63: a missing token switches the session to demo mode.
TokenCheck(ss, tok) == IF ~tok THEN Put(ss, "demo_mode", TRUE) ELSE ss

\* st.session_state.get('demo_mode', True)
DemoActive(ss) == Get(ss, "demo_mode", TRUE)

\* Variant: a linear backoff.
Backoff_m(attempt) == BackoffBase * attempt

\* time.sleep(2 ** attempt)
Backoff(attempt) == BackoffBase ^ attempt

\* Variant: the loop runs once more than range(3).
AfterResponse_m(status, attempt) ==
    IF status = HttpOk THEN "return"
    ELSE IF status = HttpTooManyRequests
    THEN (IF attempt + 1 < MaxAttempts + 1 THEN "retry" ELSE "exhausted")
    ELSE "fail"

\* What the retry loop does with the response to attempt number `attempt`:
\* "return" the image, "retry" after the sleep, leave the loop "exhausted"
\* after the sleep, or "fail" at once through the break.
AfterResponse(status, attempt) ==
    IF status = HttpOk THEN "return"
    ELSE IF status = HttpTooManyRequests
    THEN (IF attempt + 1 < MaxAttempts THEN "retry" ELSE "exhausted")
    ELSE "fail"

\* The message of the error path (lines 98-104).
ErrorMessage(resp) ==
    IF resp.body = "json" THEN "Failed to generate image: <error>"
    ELSE "Failed to generate image: API error"

(***************************************************************************)
(* The record store: table prompts and directory generated_images.         *)
(***************************************************************************)
\* save_image line 109
TooLarge(image) == image.w > MaxImageSide \/ image.h > MaxImageSide

\* datetime.now().strftime(...): the file name has the resolution of one
\* second, and is modelled by that second.
FileNameAt(t) == t

\* Variant: nothing is written.
write_blob_m(fs, name, image) == fs

\* image.save(filename)
write_blob(fs, name, image) ==
    [x \in DOMAIN fs \cup {name} |-> IF x = name THEN image ELSE fs[x]]

\* Variant: the file is left in place.
remove_blob_m(fs, name) == fs

\* os.remove(filename), guarded by os.path.exists(filename)
remove_blob(fs, name) ==
    IF name \in DOMAIN fs THEN [x \in DOMAIN fs \ {name} |-> fs[x]] ELSE fs

\* Variant: a rowid without AUTOINCREMENT, one above the largest id in the
\* table.
NextId_m(rs, high) ==
    IF rs = {} THEN 1
    ELSE (CHOOSE r \in rs : \A q \in rs : q.id <= r.id).id + 1

\* The id an AUTOINCREMENT column assigns: above every id ever assigned,
\* whatever rows the table rs still holds.
NextId(rs, high) == high + 1

\* INSERT INTO prompts (prompt, expected_style, filename, created_at)
NewRow(id, prompt, style, name, t) ==
    [id |-> id, prompt |-> prompt, expected_style |-> style,
     filename |-> name, created_at |-> t, score |-> <<>>, feedback |-> <<>>]

\* DELETE FROM prompts WHERE id = ?
delete_row(rs, id) == {r \in rs : r.id # id}

\* Variant: an UPDATE without its WHERE clause.
update_row_m(rs, id, score, feedback) ==
    {[r EXCEPT !.score = <<score>>, !.feedback = <<feedback>>] : r \in rs}

\* UPDATE prompts SET score = ?, feedback = ? WHERE id = ?
update_row(rs, id, score, feedback) ==
    {IF r.id = id
     THEN [r EXCEPT !.score = <<score>>, !.feedback = <<feedback>>]
     ELSE r : r \in rs}

\* update_evaluation: pid is <<>> for None.
update_evaluation(rs, pid, score, feedback) ==
    IF pid = <<>> THEN rs ELSE update_row(rs, pid[1], score, feedback)

\* Variant: a call that finds no row with the id reports it.
update_errors_m(rs, pid) ==
    IF pid = <<>>
    THEN <<[op |-> "st.error", n |-> 0,
           s |-> "Cannot submit rating: No prompt ID available."]>>
    ELSE IF \A r \in rs : r.id # pid[1]
         THEN <<[op |-> "st.error", n |-> pid[1], s |-> "RecordNotFound"]>>
         ELSE <<>>

\* What update_evaluation reports with st.error: only a missing id, lines
\* 153-155; the UPDATE raises nothing when it matches no row.
update_errors(rs, pid) ==
    IF pid = <<>>
    THEN <<[op |-> "st.error", n |-> 0,
           s |-> "Cannot submit rating: No prompt ID available."]>>
    ELSE <<>>

\* created_at has microsecond resolution; within one modelled second the
\* later insert, which has the larger id, is the newer row.
Newer(q, r) ==
    \/ q.created_at > r.created_at
    \/ q.created_at = r.created_at /\ q.id > r.id

\* SELECT * FROM prompts ORDER BY created_at DESC
query_all(rs) ==
    [k \in 1..Cardinality(rs) |->
        CHOOSE r \in rs : Cardinality({q \in rs : Newer(q, r)}) = k - 1]

\* Variant: a cache without ttl.
CacheFresh_m(c, t) == c # <<>>

\* @st.cache_data(ttl=60)
CacheFresh(c, t) == c # <<>> /\ t - c[1].at < CacheTtl

get_all_prompts(c, rs, t) ==
    IF CacheFresh(c, t) THEN c ELSE <<[at |-> t, val |-> query_all(rs)]>>

\* os.path.exists of get_image_base64, for the names save_image produces.
get_image_base64(fs, name) == name \in DOMAIN fs

(***************************************************************************)
(* load_sample_data                                                        *)
(***************************************************************************)
sample_data ==
    <<[prompt |->
       <<"a", " ", "f", "a", "n", "t", "a", "s", "y", " ", "c", "a",
         "s", "t", "l", "e", " ", "i", "n", " ", "t", "h", "e", " ",
         "c", "l", "o", "u", "d", "s">>,
       expected_style |-> "realistic"],
      [prompt |->
       <<"a", " ", "f", "u", "t", "u", "r", "i", "s", "t", "i", "c",
         " ", "r", "o", "b", "o", "t", " ", "c", "h", "e", "f", " ",
         "i", "n", " ", "a", " ", "k", "i", "t", "c", "h", "e", "n">>,
       expected_style |-> "cyberpunk"],
      [prompt |->
       <<"a", " ", "p", "a", "n", "d", "a", " ", "r", "i", "d", "i",
         "n", "g", " ", "a", " ", "b", "i", "c", "y", "c", "l", "e",
         " ", "i", "n", " ", "s", "p", "a", "c", "e">>,
       expected_style |-> "cartoon"]>>

feedback_options ==
    {"Great image, matches my expectation",
     "Nice style, but could use more detail",
     "Colors are perfect, composition is good"}

\* What random.randint(6, 9) and random.choice(feedback_options) may give.
SampleDraws == (SampleScoreLo..SampleScoreHi) \X feedback_options

(***************************************************************************)
(* Events, locals and the initial state.                                   *)
(***************************************************************************)
Ev(op, n, s) == [op |-> op, n |-> n, s |-> s]

NoEvent ==
    [type |-> "none", prompt |-> <<>>, style |-> "", score |-> 0,
     feedback |-> "", id |-> 0]

ViewEvent == [NoEvent EXCEPT !.type = "view"]

\* Raw prompts typed into the form: empty, blank, one that needs cleaning,
\* and one over the length limit.
PromptChoices ==
    {<<>>, <<" ", "\t">>, <<" ", "a", " ", "\n", "b", " ">>,
     Rep("a", MaxPromptLen + 1)}

\* The form's submissions: the prompt that passes with each style, and each
\* of the others with the selectbox left at its first option.
SubmitEvents ==
    {[NoEvent EXCEPT !.type = "submit", !.prompt = p, !.style = s] :
        p \in {q \in PromptChoices : validate_prompt(q).value # <<>>},
        s \in Styles}
    \cup {[NoEvent EXCEPT !.type = "submit", !.prompt = p,
                          !.style = "realistic"] : p \in PromptChoices}

\* st.slider(1, 10, 5) and st.text_input: the lowest score with the text
\* left empty, and the highest with a text.
RatingInputs == {<<1, "">>, <<10, "ok">>}

RateEvents ==
    {[NoEvent EXCEPT !.type = "rate", !.score = x[1], !.feedback = x[2]] :
        x \in RatingInputs}

DeleteEvents == {[NoEvent EXCEPT !.type = "delete", !.id = i] : i \in 1..MaxId}

LocInit ==
    [caller |-> "", idx |-> 0, prompt |-> <<>>, style |-> "", image |-> <<>>,
     attempt |-> 0, resp |-> <<>>, fname |-> <<>>, pid |-> <<>>]

SampleLoc(i) ==
    [LocInit EXCEPT !.caller = "sample", !.idx = i,
                    !.prompt = sample_data[i].prompt,
                    !.style = sample_data[i].expected_style]

WinInit == [open |-> 0, allowed |-> 0, denied |-> 0]

NoFiles == [x \in {} |-> Placeholder]

\* The variables only ListSpec, PathSpec and AggSpec change.
aux == <<snap, path, b64, report>>

AuxInit == snap = <<>> /\ path = <<>> /\ b64 = <<>> /\ report = <<>>

Init ==
    /\ now = StartTime
    /\ token \in BOOLEAN
    /\ sess = EmptySession
    /\ files = NoFiles
    /\ rows = {}
    /\ seq = 0
    /\ cache = <<>>
    /\ pc = "idle"
    /\ ev = NoEvent
    /\ loc = LocInit
    /\ log = <<>>
    /\ made = <<>>
    /\ evals = <<>>
    /\ win = WinInit
    /\ acq = <<>>
    /\ raw = <<>>
    /\ vres = <<>>
    /\ AuxInit

\* The process is started again on the database and the image directory an
\* earlier process left: of its three samples the last is still there, with
\* the score and the text d drawn for it.  Nothing is cached in the new
\* process.
RestartWith(d) ==
    LET t == StartTime - 1
        row == NewRow(NumSamples, sample_data[NumSamples].prompt,
                      sample_data[NumSamples].expected_style,
                      FileNameAt(t), t)
    IN /\ now = StartTime
       /\ token \in BOOLEAN
       /\ sess = EmptySession
       /\ files = write_blob(NoFiles, FileNameAt(t), Placeholder)
       /\ rows = update_evaluation({row}, <<NumSamples>>, d[1], d[2])
       /\ seq = NumSamples
       /\ cache = <<>>
       /\ pc = "idle"
       /\ ev = NoEvent
       /\ loc = LocInit
       /\ log = <<>>
       /\ made = [x \in {NumSamples} |-> row]
       /\ evals = [x \in {NumSamples} |->
                      <<[score |-> d[1], feedback |-> d[2]]>>]
       /\ win = WinInit
       /\ acq = <<>>
       /\ raw = <<>>
       /\ vres = <<>>
       /\ AuxInit

Restart == \E d \in SampleDraws : RestartWith(d)

history == <<made, evals, win, acq, raw, vres, aux>>

(***************************************************************************)
(* A script run: load_sample_data(), then main().                          *)
(***************************************************************************)
\* The rating form is on the page (line 224).
RatingFormShown(ss) == Has(ss, "latest_prompt_id") /\ ss["latest_prompt_id"] # 0

\* The entries of the listing whose Delete button is on the page.
Deletable(c, fs) ==
    IF c = <<>> THEN {}
    ELSE {c[1].val[i] : i \in {j \in 1..Len(c[1].val) :
                                  get_image_base64(fs, c[1].val[j].filename)}}

\* Ids the run triggered by e may need, so that no run exceeds MaxId.
IdsNeeded(e) ==
    (IF {r \in rows : r.id # e.id} = {} THEN NumSamples ELSE 0)
    + (IF e.type = "submit" THEN 1 ELSE 0)

CanOccur(e) ==
    CASE e.type = "view" -> TRUE
      [] e.type = "submit" -> /\ Has(sess, "reset_session")
                              /\ Get(sess, "request_count", 0) < MaxCount
      [] e.type = "rate" -> RatingFormShown(sess)
      [] e.type = "delete" -> \E r \in Deletable(cache, files) : r.id = e.id

\* Variant: the session is initialised in every run.
main_init_m(ss) == FreshSession

\* main lines 194-199
main_init(ss) == IF ~Has(ss, "reset_session") THEN FreshSession ELSE ss

\* main line 213: where the run goes after the set-up
FormPc(e) == IF e.type = "submit" THEN "validate" ELSE "rating"

\* load_sample_data finds the table empty (lines 348-358)
StoreEmpty(rs) == Cardinality(rs) = 0

\* The script starts: load_sample_data lines 348-358 and, when no sample is
\* to be loaded, main lines 194-213.
StartScript(e) ==
    /\ ev' = e
    /\ log' = <<>>
    /\ IF StoreEmpty(rows)
       THEN /\ sess' = Put(sess, "demo_mode", TRUE)
            /\ loc' = SampleLoc(1)
            /\ pc' = "generate"
       ELSE /\ sess' = main_init(sess)
            /\ loc' = LocInit
            /\ pc' = FormPc(e)
    /\ UNCHANGED <<now, token, files, rows, seq, cache, history>>

BeginRun(e) ==
    /\ pc = "idle"
    /\ CanOccur(e)
    /\ now <= MaxStart
    /\ seq + IdsNeeded(e) <= MaxId
    /\ StartScript(e)

\* Variant: line 215 with its operands swapped, check_rate_limit() first.
Validate_m ==
    /\ pc = "validate"
    /\ LET r == validate_prompt(ev.prompt)
           q == check_rate_limit(sess, now)
       IN /\ sess' = q.ss
          /\ IF ~q.allowed
             THEN /\ log' = Append(log, Ev("rate_denied", 0, ""))
                  /\ pc' = "rating"
                  /\ UNCHANGED loc
             ELSE IF r.value # <<>> /\ r.value[1] # <<>>
             THEN /\ loc' = [LocInit EXCEPT !.caller = "main",
                                            !.prompt = r.value[1],
                                            !.style = ev.style]
                  /\ log' = log \o <<Ev("rate_ok", 0, ""), Ev("validate_ok", 0, "")>>
                  /\ pc' = "generate"
             ELSE /\ log' = log \o <<Ev("rate_ok", 0, ""),
                                     Ev("validate_error", 0, r.error)>>
                  /\ pc' = "rating"
                  /\ UNCHANGED loc
    /\ UNCHANGED <<now, token, files, rows, seq, cache, ev, history>>

\* main line 214 and the first operand of line 215
Validate ==
    /\ pc = "validate"
    /\ LET r == validate_prompt(ev.prompt)
       IN IF r.value # <<>> /\ r.value[1] # <<>>
          THEN /\ loc' = [LocInit EXCEPT !.caller = "main",
                                         !.prompt = r.value[1],
                                         !.style = ev.style]
               /\ log' = Append(log, Ev("validate_ok", 0, ""))
               /\ pc' = "ratelimit"
          ELSE /\ log' = Append(log, Ev("validate_error", 0, r.error))
               /\ pc' = "rating"
               /\ UNCHANGED loc
    /\ UNCHANGED <<now, token, sess, files, rows, seq, cache, ev, history>>

\* Variant: the verdict of check_rate_limit() is ignored.
RateLimitStep_m ==
    /\ pc = "ratelimit"
    /\ LET r == check_rate_limit(sess, now)
       IN /\ sess' = r.ss
          /\ log' = Append(log, Ev(IF r.allowed THEN "rate_ok" ELSE "rate_denied",
                                   0, ""))
          /\ pc' = "generate"
    /\ UNCHANGED <<now, token, files, rows, seq, cache, ev, loc, history>>

\* main line 215, second operand
RateLimitStep ==
    /\ pc = "ratelimit"
    /\ LET r == check_rate_limit(sess, now)
       IN /\ sess' = r.ss
          /\ IF r.allowed
             THEN /\ log' = Append(log, Ev("rate_ok", 0, ""))
                  /\ pc' = "generate"
             ELSE /\ log' = Append(log, Ev("rate_denied", 0, ""))
                  /\ pc' = "rating"
    /\ UNCHANGED <<now, token, files, rows, seq, cache, ev, loc, history>>

\* Where generate_image returns to: main line 217 tests the image,
\* load_sample_data line 361 saves whatever it got.
ReturnPc(caller, image) ==
    IF caller = "main" /\ image = <<>> THEN "rating" ELSE "save"

\* generate_image lines 61-68: the token check and the choice of the mode
Generate ==
    /\ pc = "generate"
    /\ sess' = TokenCheck(sess, token)
    /\ log' = Append(log, Ev("generate", 0, loc.caller))
    /\ IF DemoActive(sess')
       THEN /\ pc' = "demo"
            /\ UNCHANGED loc
       ELSE /\ loc' = [loc EXCEPT !.attempt = 0]
            /\ pc' = "post"
    /\ UNCHANGED <<now, token, files, rows, seq, cache, ev, history>>

\* Demo mode, lines 69-72: time.sleep(3), then the placeholder is returned.
DemoSleep ==
    /\ pc = "demo"
    /\ now' = now + DemoDelay
    /\ loc' = [loc EXCEPT !.image = <<Placeholder>>]
    /\ log' = Append(log, Ev("placeholder", DemoDelay, ""))
    /\ pc' = ReturnPc(loc.caller, <<Placeholder>>)
    /\ UNCHANGED <<token, sess, files, rows, seq, cache, ev, history>>

\* One pass of the retry loop, lines 83-96, up to the sleep: the POST and
\* its response.
Post(resp) ==
    /\ pc = "post"
    /\ log' = log \o <<Ev("POST", loc.attempt, model_id(loc.style)),
                       Ev("STATUS", resp.status, "")>>
    /\ LET a == AfterResponse(resp.status, loc.attempt)
       IN CASE a = "return" ->
                    /\ loc' = [loc EXCEPT !.image = <<Decoded(resp)>>,
                                          !.resp = <<resp>>]
                    /\ pc' = ReturnPc(loc.caller, <<Decoded(resp)>>)
            [] a = "fail" ->
                    /\ loc' = [loc EXCEPT !.resp = <<resp>>]
                    /\ pc' = "gen_error"
            [] OTHER ->
                    /\ loc' = [loc EXCEPT !.resp = <<resp>>]
                    /\ pc' = "backoff"
    /\ UNCHANGED <<now, token, sess, files, rows, seq, cache, ev, history>>

\* After a 429, line 95: time.sleep(2 ** attempt), then the next pass, or
\* the end of the loop.
BackoffSleep ==
    /\ pc = "backoff"
    /\ now' = now + Backoff(loc.attempt)
    /\ log' = Append(log, Ev("SLEEP", Backoff(loc.attempt), ""))
    /\ IF AfterResponse(loc.resp[1].status, loc.attempt) = "retry"
       THEN /\ loc' = [loc EXCEPT !.attempt = loc.attempt + 1]
            /\ pc' = "post"
       ELSE /\ pc' = "gen_error"
            /\ UNCHANGED loc
    /\ UNCHANGED <<token, sess, files, rows, seq, cache, ev, history>>

\* The error path, lines 98-105
GenError ==
    /\ pc = "gen_error"
    /\ log' = Append(log, Ev("error", loc.resp[1].status, ErrorMessage(loc.resp[1])))
    /\ loc' = [loc EXCEPT !.image = <<>>]
    /\ pc' = ReturnPc(loc.caller, <<>>)
    /\ UNCHANGED <<now, token, sess, files, rows, seq, cache, ev, history>>

\* save_image lines 109-114: the size check and the blob write
SaveBlob ==
    /\ pc = "save"
    /\ IF TooLarge(loc.image[1])
       THEN /\ log' = Append(log, Ev("too_large", 0, ""))
            /\ loc' = [loc EXCEPT !.fname = <<>>, !.pid = <<>>]
            /\ pc' = "saved"
            /\ UNCHANGED files
       ELSE /\ files' = write_blob(files, FileNameAt(now), loc.image[1])
            /\ log' = Append(log, Ev("write_blob", FileNameAt(now),
                                      IF get_image_base64(files, FileNameAt(now))
                                      THEN "overwrite" ELSE "new"))
            /\ loc' = [loc EXCEPT !.fname = <<FileNameAt(now)>>]
            /\ pc' = "insert"
    /\ UNCHANGED <<now, token, sess, rows, seq, cache, ev, history>>

\* save_image lines 115-124: the insert
InsertRow ==
    /\ pc = "insert"
    /\ LET id == NextId(rows, seq)
           row == NewRow(id, loc.prompt, loc.style, loc.fname[1], now)
       IN /\ rows' = rows \cup {row}
          /\ seq' = id
          /\ loc' = [loc EXCEPT !.pid = <<id>>]
          /\ log' = Append(log, Ev("insert", id, ""))
          /\ made' = [x \in DOMAIN made \cup {id} |->
                         IF x = id THEN row ELSE made[x]]
          /\ evals' = [x \in DOMAIN evals \cup {id} |->
                         IF x = id THEN <<>> ELSE evals[x]]
    /\ pc' = "saved"
    /\ UNCHANGED <<now, token, sess, files, cache, ev, win, acq, raw, vres, aux>>

\* The history of update_evaluation(pid, score, feedback)
Evaluated(h, pid, score, feedback) ==
    IF pid # <<>> /\ pid[1] \in DOMAIN h
    THEN [h EXCEPT ![pid[1]] = <<[score |-> score, feedback |-> feedback]>>]
    ELSE h

\* After save_image in load_sample_data, lines 362-370; after the last
\* sample, main lines 194-213.
SampleSaved(d) ==
    /\ pc = "saved"
    /\ loc.caller = "sample"
    /\ d \in SampleDraws
    /\ IF loc.pid # <<>>
       THEN /\ rows' = update_evaluation(rows, loc.pid, d[1], d[2])
            /\ evals' = Evaluated(evals, loc.pid, d[1], d[2])
            /\ log' = Append(log, Ev("update", loc.pid[1], d[2]))
       ELSE UNCHANGED <<rows, evals, log>>
    /\ IF loc.idx < NumSamples
       THEN /\ loc' = SampleLoc(loc.idx + 1)
            /\ pc' = "generate"
            /\ UNCHANGED sess
       ELSE /\ loc' = LocInit
            /\ sess' = main_init(sess)
            /\ pc' = FormPc(ev)
    /\ UNCHANGED <<now, token, files, seq, cache, ev, made, win, acq, raw, vres, aux>>

\* After save_image in main, lines 219-222
MainSaved ==
    /\ pc = "saved"
    /\ loc.caller = "main"
    /\ IF loc.fname # <<>>
       THEN /\ sess' = Put(sess, "latest_prompt_id", loc.pid[1])
            /\ log' = Append(log, Ev("success", loc.pid[1], ""))
       ELSE UNCHANGED <<sess, log>>
    /\ pc' = "rating"
    /\ UNCHANGED <<now, token, files, rows, seq, cache, ev, loc, history>>

\* main lines 224-235: the rating form
Rating ==
    /\ pc = "rating"
    /\ IF RatingFormShown(sess) /\ ev.type = "rate"
       THEN LET pid == <<sess["latest_prompt_id"]>>
            IN /\ rows' = update_evaluation(rows, pid, ev.score, ev.feedback)
               /\ evals' = Evaluated(evals, pid, ev.score, ev.feedback)
               /\ sess' = Del(sess, "latest_prompt_id")
               /\ log' = Append(log, Ev("update", pid[1], ev.feedback))
       ELSE UNCHANGED <<rows, evals, sess, log>>
    /\ pc' = "tabs"
    /\ UNCHANGED <<now, token, files, seq, cache, ev, loc, made, win, acq, raw, vres, aux>>

\* The gallery and history tabs: the listing, and the clicked Delete button
\* (lines 239, 256, 272).  Without a delete the script ends here and its
\* locals are gone.
Tabs ==
    /\ pc = "tabs"
    /\ LET c == get_all_prompts(cache, rows, now)
           hit == {r \in Deletable(c, files) : r.id = ev.id}
       IN /\ cache' = c
          /\ IF ev.type = "delete" /\ hit # {}
             THEN LET r == CHOOSE x \in hit : TRUE
                  IN /\ loc' = [LocInit EXCEPT !.pid = <<r.id>>,
                                               !.fname = <<r.filename>>]
                     /\ log' = Append(log, Ev("delete", r.id, ""))
                     /\ pc' = "delete_blob"
                     /\ UNCHANGED ev
             ELSE /\ pc' = "idle"
                  /\ ev' = NoEvent
                  /\ loc' = LocInit
                  /\ log' = <<>>
    /\ UNCHANGED <<now, token, sess, files, rows, seq, history>>

\* delete_image lines 128-129
DeleteBlob ==
    /\ pc = "delete_blob"
    /\ files' = remove_blob(files, loc.fname[1])
    /\ log' = Append(log, Ev("remove_blob", loc.fname[1],
                              IF get_image_base64(files, loc.fname[1])
                              THEN "removed" ELSE "absent"))
    /\ pc' = "delete_row"
    /\ UNCHANGED <<now, token, sess, rows, seq, cache, ev, loc, history>>

\* delete_image lines 130-133
DeleteRow ==
    /\ pc = "delete_row"
    /\ rows' = delete_row(rows, loc.pid[1])
    /\ log' = Append(log, Ev("delete_row", loc.pid[1],
                              IF \E r \in rows : r.id = loc.pid[1]
                              THEN "deleted" ELSE "absent"))
    /\ pc' = "rerun"
    /\ UNCHANGED <<now, token, sess, files, seq, cache, ev, loc, history>>

\* st.experimental_rerun(): the script starts over, with no widget event
Rerun ==
    /\ pc = "rerun"
    /\ loc.caller # "store"
    /\ StartScript(ViewEvent)

\* The answers of the remote service followed in a whole session: an image
\* that fits, one that is too large, and a failure.  (GenSpec follows every
\* answer, the 429s included.)
SessionResponses ==
    {r \in Responses :
        \/ r.status = HttpOk /\ r.h # PlaceholderSide
        \/ r.status \notin {HttpOk, HttpTooManyRequests, 204} /\ r.body = "json"}

\* One browser session from the start of the process, on an empty store
\* (the first run loads the samples, with every draw of score and text) or on
\* the store an earlier process left.  Interactions follow each other at
\* once: the clock advances inside time.sleep only.
Next ==
    \/ BeginRun(ViewEvent)
    \/ \E e \in SubmitEvents : BeginRun(e)
    \/ \E e \in RateEvents : BeginRun(e)
    \/ \E e \in DeleteEvents : BeginRun(e)
    \/ Validate
    \/ RateLimitStep
    \/ Generate
    \/ DemoSleep
    \/ \E resp \in SessionResponses : Post(resp)
    \/ GenError
    \/ SaveBlob
    \/ InsertRow
    \/ \E d \in SampleDraws : SampleSaved(d)
    \/ MainSaved
    \/ Rating
    \/ Tabs
    \/ DeleteBlob
    \/ DeleteRow
    \/ Rerun

SessionInit == Init \/ Restart

Spec == SessionInit /\ [][Next]_vars

(***************************************************************************)
(* ValSpec: validate_prompt on raw prompts made of a run of whitespace, a  *)
(* word, a run of whitespace, a word and a run of whitespace, with lengths *)
(* that are short, near half the limit or near the limit.                  *)
(***************************************************************************)
RunLengths ==
    (0..MaxPad) \cup {MaxPromptLen \div 2}
    \cup ((MaxPromptLen - MaxPad)..(MaxPromptLen + 1))

PromptInputs ==
    {Rep(w1, a) \o Rep("a", b) \o Rep(w2, c) \o Rep("b", d) \o Rep(w1, e) :
        <<w1, w2, a, b, c, d, e>> \in
            {" ", "\t", "\r"} \X {"\n", "U+00A0"} \X (0..MaxPad) \X RunLengths
            \X RunLengths \X (0..MaxPad) \X (0..MaxPad)}

ValInit ==
    /\ now = StartTime /\ token = FALSE /\ sess = EmptySession
    /\ files = NoFiles /\ rows = {} /\ seq = 0 /\ cache = <<>>
    /\ pc = "validator" /\ ev = NoEvent /\ loc = LocInit /\ log = <<>>
    /\ made = <<>> /\ evals = <<>> /\ win = WinInit /\ acq = <<>>
    /\ raw \in PromptInputs
    /\ vres = <<>>
    /\ AuxInit

CallValidate ==
    /\ pc = "validator"
    /\ vres = <<>>
    /\ vres' = <<validate_prompt(raw)>>
    /\ UNCHANGED <<now, token, sess, files, rows, seq, cache, pc, ev, loc, log,
                   made, evals, win, acq, raw, aux>>

ValNext == CallValidate

ValSpec == ValInit /\ [][ValNext]_vars

(***************************************************************************)
(* RLSpec: check_rate_limit called at any times of a session.              *)
(***************************************************************************)
RLInit ==
    /\ now = StartTime /\ token = TRUE /\ sess = FreshSession
    /\ files = NoFiles /\ rows = {} /\ seq = 0 /\ cache = <<>>
    /\ pc = "limiter" /\ ev = NoEvent /\ loc = LocInit /\ log = <<>>
    /\ made = <<>> /\ evals = <<>> /\ win = WinInit /\ acq = <<>>
    /\ raw = <<>> /\ vres = <<>> /\ AuxInit

RLTick ==
    /\ pc = "limiter"
    /\ now < MaxTime
    /\ now' = now + 1
    /\ UNCHANGED <<token, sess, files, rows, seq, cache, pc, ev, loc, log, history>>

\* A call at the current time.  win follows the window the call falls in:
\* the time of the call that reset the count, and the verdicts since.  acq
\* describes the call: its verdict, whether it reset the count, the age of
\* the window when it came (ages above RateWindow + 1 are not told apart),
\* the verdicts and the count before it, whether the call before it came
\* within RateWindow seconds of the start of the window, and whether it left
\* last_request_time as it was.
TryAcquire ==
    /\ pc = "limiter"
    /\ LET r == check_rate_limit(sess, now)
           a == IF r.allowed THEN 1 ELSE 0
       IN /\ r.ss["request_count"] <= MaxCalls
          /\ sess' = r.ss
          /\ win' = IF r.reset
                    THEN [open |-> now, allowed |-> a, denied |-> 1 - a]
                    ELSE [win EXCEPT !.allowed = win.allowed + a,
                                     !.denied = win.denied + (1 - a)]
          /\ acq' = <<[allowed |-> r.allowed,
                       reset |-> r.reset,
                       age |-> IF now - win.open > RateWindow + 1
                               THEN RateWindow + 2 ELSE now - win.open,
                       allowed_before |-> win.allowed,
                       denied_before |-> win.denied,
                       count_before |-> sess["request_count"],
                       prev_inside |-> sess["last_request_time"] - win.open
                                          <= RateWindow,
                       kept_start |-> r.ss["last_request_time"]
                                        = sess["last_request_time"]]>>
    /\ UNCHANGED <<now, token, files, rows, seq, cache, pc, ev, loc, log,
                   made, evals, raw, vres, aux>>

RLNext == RLTick \/ TryAcquire

RLSpec == RLInit /\ [][RLNext]_vars

(***************************************************************************)
(* GenSpec: one call of generate_image from main, in either mode, under    *)
(* every answer of the remote service.  GenFairSpec adds that the call     *)
(* keeps running: the script has one thread and nothing cancels it.        *)
(***************************************************************************)
GenInit ==
    /\ now = StartTime
    /\ token \in BOOLEAN
    /\ \E d \in BOOLEAN :
          sess = [check_rate_limit(FreshSession, StartTime).ss
                      EXCEPT !["demo_mode"] = d]
    /\ files = NoFiles /\ rows = {} /\ seq = 0 /\ cache = <<>>
    /\ pc = "generate"
    /\ \E s \in Styles :
          /\ ev = [NoEvent EXCEPT !.type = "submit", !.prompt = <<"a">>,
                                  !.style = s]
          /\ loc = [LocInit EXCEPT !.caller = "main", !.prompt = <<"a">>,
                                   !.style = s]
    /\ log = <<>>
    /\ made = <<>> /\ evals = <<>> /\ win = WinInit /\ acq = <<>>
    /\ raw = <<>> /\ vres = <<>> /\ AuxInit

GenNext ==
    \/ Generate
    \/ DemoSleep
    \/ \E resp \in Responses : Post(resp)
    \/ BackoffSleep
    \/ GenError

GenSpec == GenInit /\ [][GenNext]_vars

GenFairSpec == GenSpec /\ WF_vars(GenNext)

(***************************************************************************)
(* StoreSpec: save_image, update_evaluation and delete_image called in any *)
(* order, as the sessions of the app call them: update_evaluation with an  *)
(* id save_image returned or with None, delete_image with the id and file  *)
(* name of a row a listing showed, which by then may be gone.              *)
(***************************************************************************)
StoreInit ==
    /\ now = StartTime /\ token = FALSE /\ sess = EmptySession
    /\ files = NoFiles /\ rows = {} /\ seq = 0 /\ cache = <<>>
    /\ pc = "store" /\ ev = NoEvent /\ loc = LocInit /\ log = <<>>
    /\ made = <<>> /\ evals = <<>> /\ win = WinInit /\ acq = <<>>
    /\ raw = <<>> /\ vres = <<>> /\ AuxInit

StoreImages ==
    {Placeholder,
     [w |-> MaxImageSide + 1, h |-> PlaceholderSide, kind |-> "decoded"]}

StoreTick ==
    /\ pc = "store"
    /\ now < MaxStoreTime
    /\ now' = now + 1
    /\ UNCHANGED <<token, sess, files, rows, seq, cache, pc, ev, loc, log, history>>

CallSave(image, prompt, style) ==
    /\ pc = "store"
    /\ seq < MaxRecords
    /\ loc' = [LocInit EXCEPT !.caller = "store", !.image = <<image>>,
                              !.prompt = prompt, !.style = style]
    /\ log' = <<Ev("save_image", 0, "")>>
    /\ pc' = "save"
    /\ UNCHANGED <<now, token, sess, files, rows, seq, cache, ev, history>>

\* The log keeps the call and the score the row had before it (0: none).
CallUpdate(pid, score, feedback) ==
    /\ pc = "store"
    /\ rows' = update_evaluation(rows, pid, score, feedback)
    /\ evals' = Evaluated(evals, pid, score, feedback)
    /\ log' = <<Ev("update_evaluation", IF pid = <<>> THEN 0 ELSE pid[1], feedback),
                Ev("score_before",
                   IF \E r \in rows : <<r.id>> = pid /\ r.score # <<>>
                   THEN (CHOOSE r \in rows : <<r.id>> = pid).score[1] ELSE 0,
                   "")>>
               \o update_errors(rows, pid)
    /\ UNCHANGED <<now, token, sess, files, seq, cache, pc, ev, loc,
                   made, win, acq, raw, vres, aux>>

CallDelete(id, name) ==
    /\ pc = "store"
    /\ loc' = [LocInit EXCEPT !.caller = "store", !.pid = <<id>>,
                              !.fname = <<name>>]
    /\ log' = <<Ev("delete_image", id, "")>>
    /\ pc' = "delete_blob"
    /\ UNCHANGED <<now, token, sess, files, rows, seq, cache, ev, history>>

\* The process dies, or the SQL statement raises, between the two steps of
\* save_image or of delete_image: the call is over and its locals are gone.
StoreCrash ==
    /\ pc \in {"insert", "delete_row"}
    /\ loc.caller = "store"
    /\ pc' = "store"
    /\ loc' = LocInit
    /\ log' = Append(log, Ev("crash", 0, pc))
    /\ UNCHANGED <<now, token, sess, files, rows, seq, cache, ev, history>>

\* save_image or delete_image returns to the caller.
StoreReturn ==
    /\ pc \in {"saved", "rerun"}
    /\ loc.caller = "store"
    /\ pc' = "store"
    /\ loc' = LocInit
    /\ UNCHANGED <<now, token, sess, files, rows, seq, cache, ev, log, history>>

StoreNext ==
    \/ StoreTick
    \/ \E image \in StoreImages, style \in {"realistic", "cartoon"} :
          CallSave(image, <<"a">>, style)
    \/ \E pid \in {<<>>} \cup {<<i>> : i \in 1..seq}, x \in RatingInputs :
          CallUpdate(pid, x[1], x[2])
    \/ \E i \in DOMAIN made : CallDelete(made[i].id, made[i].filename)
    \/ SaveBlob
    \/ InsertRow
    \/ DeleteBlob
    \/ DeleteRow
    \/ StoreReturn

StoreSpec == StoreInit /\ [][StoreNext]_vars

\* CrashSpec: save_image and delete_image, each of which may be cut short
\* between its two steps.
CrashNext ==
    \/ StoreTick
    \/ \E image \in StoreImages : CallSave(image, <<"a">>, "realistic")
    \/ \E i \in DOMAIN made : CallDelete(made[i].id, made[i].filename)
    \/ SaveBlob
    \/ InsertRow
    \/ DeleteBlob
    \/ DeleteRow
    \/ StoreCrash
    \/ StoreReturn

CrashSpec == StoreInit /\ [][CrashNext]_vars

(***************************************************************************)
(* ListSpec: get_all_prompts called between the calls that change the      *)
(* table, over a stretch of time longer than the ttl of its cache.         *)
(***************************************************************************)
\* The instants at which something is called: the start, and one second
\* before, at and after the ttl.
ListTimes == {StartTime + d : d \in {0, CacheTtl - 1, CacheTtl, CacheTtl + 1}}

ListTick(t) ==
    /\ pc = "store"
    /\ now < t
    /\ t <= MaxListTime
    /\ now' = t
    /\ UNCHANGED <<token, sess, files, rows, seq, cache, pc, ev, loc, log, history>>

\* get_all_prompts() at the current time: the log keeps the time of the
\* call, snap the table as the SELECT found it when the cache did not answer.
CallList ==
    /\ pc = "store"
    /\ cache' = get_all_prompts(cache, rows, now)
    /\ snap' = IF CacheFresh(cache, now) THEN snap
               ELSE <<[at |-> now, rows |-> rows]>>
    /\ log' = <<Ev("get_all_prompts", now, "")>>
    /\ UNCHANGED <<now, token, sess, files, rows, seq, pc, ev, loc,
                   made, evals, win, acq, raw, vres, path, b64, report>>

ListNext ==
    \/ \E t \in ListTimes : ListTick(t)
    \/ CallList
    \/ CallSave(Placeholder, <<"a">>, "realistic")
    \/ \E i \in 1..seq : CallUpdate(<<i>>, SampleScoreHi, "ok")
    \/ \E r \in rows : CallDelete(r.id, r.filename)
    \/ SaveBlob
    \/ InsertRow
    \/ DeleteBlob
    \/ DeleteRow
    \/ StoreReturn

ListSpec == StoreInit /\ [][ListNext]_vars

(***************************************************************************)
(* AggSpec: the evaluation report of main, lines 310-330, made from each   *)
(* listing get_all_prompts can return.                                     *)
(***************************************************************************)
RECURSIVE Sum(_)
\* sum(...)
Sum(scores) == IF scores = <<>> THEN 0 ELSE Head(scores) + Sum(Tail(scores))

RECURSIVE Log2(_)
\* The largest j with 2^j <= n, for n >= 1.
Log2(n) == IF n < 2 THEN 0 ELSE 1 + Log2(n \div 2)

\* avg = k / 20 with k odd and not a multiple of 5 is no float: the float
\* the division gives is the multiple of 2^(-e) nearest to it, where e
\* places k / 5 between 2^52 and 2^53, and it lies above k / 20 when
\* k * 2^e leaves 3 or 4 on division by 5.  (2^e and 2^(e % 4) leave the
\* same.)
FloatAbove(k) ==
    LET j == IF k >= 5 THEN Log2(k \div 5) ELSE IF k = 1 THEN -3 ELSE -1
        e == 52 - j
    IN ((k % 5) * 2^(e % 4)) % 5 >= 3

\* f"{avg:.1f}" for avg = total / count, in tenths: the tenth nearest to the
\* float.  When total / count lies halfway between two tenths it is k / 20
\* for an odd k: at .25 and .75 the float is exact and the even tenth is
\* taken, elsewhere the float lies on one side.
OneDecimal(total, count) ==
    LET q == (10 * total) \div count
        r == (10 * total) % count
        k == 2 * q + 1
    IN IF 2 * r > count THEN q + 1
       ELSE IF 2 * r < count THEN q
       ELSE IF k % 5 = 0 THEN (IF q % 2 = 0 THEN q ELSE q + 1)
       ELSE IF FloatAbove(k) THEN q + 1 ELSE q

\* sum(scores) / len(scores), kept as the two integers, and the text shown.
Mean(scores) ==
    [sum |-> Sum(scores), count |-> Len(scores),
     tenths |-> OneDecimal(Sum(scores), Len(scores))]

Scored(p) == p.score # <<>>

\* [p for p in prompts if p["score"] is not None]
evaluated_prompts(prompts) == SelectSeq(prompts, Scored)

ScoresOf(ps) == [i \in 1..Len(ps) |-> ps[i].score[1]]

\* Variant: the sum is divided by the number of rows listed.
avg_score_m(prompts) ==
    [sum |-> Sum(ScoresOf(evaluated_prompts(prompts))), count |-> Len(prompts),
     tenths |-> OneDecimal(Sum(ScoresOf(evaluated_prompts(prompts))),
                           Len(prompts))]

\* avg_score, lines 317-318
avg_score(prompts) == Mean(ScoresOf(evaluated_prompts(prompts)))

RECURSIVE styles_dict(_, _)
\* The loop of lines 322-326 over the evaluated rows ps, from the dict d.
styles_dict(ps, d) ==
    IF ps = <<>> THEN d
    ELSE LET style == Head(ps).expected_style
             old == IF style \in DOMAIN d THEN d[style] ELSE <<>>
         IN styles_dict(Tail(ps),
                [x \in DOMAIN d \cup {style} |->
                    IF x = style THEN Append(old, Head(ps).score[1]) ELSE d[x]])

NoStyles == [x \in {} |-> <<>>]

\* What tab4 shows for a listing: the notice, or the overall average and the
\* average of each style.
evaluation_report(prompts) ==
    IF evaluated_prompts(prompts) = <<>>
    THEN [none |-> TRUE, overall |-> <<>>, by |-> NoStyles]
    ELSE LET d == styles_dict(evaluated_prompts(prompts), NoStyles)
         IN [none |-> FALSE,
             overall |-> <<avg_score(prompts)>>,
             by |-> [x \in DOMAIN d |-> Mean(d[x])]]

\* Scores a row of a listing may carry: none, or one given with the slider.
ListedScores == {<<>>, <<1>>, <<6>>, <<8>>, <<10>>}

\* The listings of n rows, one row made each second, newest first.
Listings(n) ==
    {[i \in 1..n |->
        [NewRow(n - i + 1, <<"a">>, st[i], FileNameAt(StartTime + n - i),
                StartTime + n - i)
         EXCEPT !.score = sc[i],
                !.feedback = IF sc[i] = <<>> THEN <<>> ELSE <<"">>]] :
     st \in [1..n -> Styles], sc \in [1..n -> ListedScores]}

AggInit ==
    /\ \E n \in 0..MaxListing : \E val \in Listings(n) :
          /\ now = StartTime + n
          /\ rows = {val[i] : i \in 1..n}
          /\ seq = n
          /\ files = [x \in {val[i].filename : i \in 1..n} |-> Placeholder]
          /\ cache = <<[at |-> now, val |-> val]>>
    /\ token = FALSE /\ sess = EmptySession
    /\ pc = "report" /\ ev = NoEvent /\ loc = LocInit /\ log = <<>>
    /\ made = <<>> /\ evals = <<>> /\ win = WinInit /\ acq = <<>>
    /\ raw = <<>> /\ vres = <<>> /\ AuxInit

ShowReport ==
    /\ pc = "report"
    /\ cache' = get_all_prompts(cache, rows, now)
    /\ report' = <<evaluation_report(cache'[1].val)>>
    /\ pc' = "idle"
    /\ UNCHANGED <<now, token, sess, files, rows, seq, ev, loc, log,
                   made, evals, win, acq, raw, vres, snap, path, b64>>

AggNext == ShowReport

AggSpec == AggInit /\ [][AggNext]_vars

(***************************************************************************)
(* PathSpec: get_image_base64 called with each path made of a few          *)
(* segments, against a disk that holds one image, one file in a directory  *)
(* next to generated_images, and the database file.                        *)
(***************************************************************************)
\* os.getcwd()
Cwd ==
    <<"/", "a", "p", "p">>

ImagesDir ==
    <<"g", "e", "n", "e", "r", "a", "t", "e", "d", "_", "i", "m", "a",
    "g", "e", "s">>

SiblingDir ==
    <<"g", "e", "n", "e", "r", "a", "t", "e", "d", "_", "i", "m", "a",
    "g", "e", "s", "_", "o", "l", "d">>

ImageFile ==
    <<"x", ".", "p", "n", "g">>

DbFile ==
    <<"i", "m", "a", "g", "e", "_", "g", "e", "n", "e", "r", "a", "t",
    "o", "r", ".", "d", "b">>

Slash == <<"/">>

RECURSIVE segments_from(_, _, _)
\* path.split("/"): cur is the segment being read, acc those already read.
segments_from(p, cur, acc) ==
    IF p = <<>> THEN Append(acc, cur)
    ELSE IF Head(p) = "/" THEN segments_from(Tail(p), <<>>, Append(acc, cur))
    ELSE segments_from(Tail(p), Append(cur, Head(p)), acc)

segments(p) == segments_from(p, <<>>, <<>>)

\* The slashes os.path.normpath keeps in front of a path: two when it begins
\* with exactly two, one when it begins with one or with three or more.
initial_slashes(p) ==
    IF p = <<>> \/ Head(p) # "/" THEN 0
    ELSE IF Len(p) >= 2 /\ p[2] = "/" /\ ~(Len(p) >= 3 /\ p[3] = "/") THEN 2
    ELSE 1

RECURSIVE collapse(_, _, _)
\* The loop of os.path.normpath over the segments comps: empty segments and
\* "." are dropped; ".." removes the segment before it, is dropped at the
\* root, and is kept in front of a relative path and after another "..".
collapse(comps, new_comps, initial) ==
    IF comps = <<>> THEN new_comps
    ELSE LET comp == Head(comps)
         IN IF comp \in {<<>>, <<".">>}
            THEN collapse(Tail(comps), new_comps, initial)
            ELSE IF \/ comp # <<".", ".">>
                    \/ initial = 0 /\ new_comps = <<>>
                    \/ new_comps # <<>> /\ new_comps[Len(new_comps)] = <<".", ".">>
            THEN collapse(Tail(comps), Append(new_comps, comp), initial)
            ELSE IF new_comps # <<>>
            THEN collapse(Tail(comps),
                          SubSeq(new_comps, 1, Len(new_comps) - 1), initial)
            ELSE collapse(Tail(comps), new_comps, initial)

\* os.path.normpath(p)
normpath(p) ==
    LET initial == initial_slashes(p)
        normal == Rep("/", initial)
                  \o join(Slash, collapse(segments(p), <<>>, initial))
    IN IF normal = <<>> THEN <<".">> ELSE normal

\* os.path.abspath(p): a relative path is joined to the working directory.
abspath(p) ==
    normpath(IF p # <<>> /\ Head(p) = "/" THEN p ELSE Cwd \o Slash \o p)

\* str.startswith
startswith(s, prefix) ==
    Len(s) >= Len(prefix) /\ SubSeq(s, 1, Len(prefix)) = prefix

\* The regular files of the disk, and what they hold.
DiskFiles ==
    {[name |-> abspath(ImagesDir \o Slash \o ImageFile), bytes |-> "image"],
     [name |-> abspath(SiblingDir \o Slash \o ImageFile), bytes |-> "old image"],
     [name |-> abspath(DbFile), bytes |-> "database"]}

DiskDirs == {Slash, Cwd, abspath(ImagesDir), abspath(SiblingDir)}

\* os.path.exists: two slashes in front name the same place as one.
exists(full) ==
    LET name == IF initial_slashes(full) = 2 THEN Tail(full) ELSE full
    IN name \in DiskDirs \/ \E f \in DiskFiles : f.name = name

\* get_image_base64: <<>> for None, the encoded bytes of the file, or the
\* exception open() raises for a directory.
read_image_base64(image_path) ==
    LET base_dir == abspath(ImagesDir)
        full_path == abspath(image_path)
    IN IF ~startswith(full_path, base_dir) \/ ~exists(full_path) THEN <<>>
       ELSE IF full_path \in DiskDirs
            THEN <<[kind |-> "raised", of |-> "IsADirectoryError"]>>
       ELSE <<[kind |-> "base64",
               of |-> (CHOOSE f \in DiskFiles : f.name = full_path).bytes]>>

PathSegments ==
    {ImagesDir, SiblingDir, ImageFile, DbFile, <<".", ".">>, <<".">>,
     <<"a", "p", "p">>}

RECURSIVE relative(_)
relative(segs) ==
    IF Len(segs) = 1 THEN segs[1]
    ELSE Head(segs) \o Slash \o relative(Tail(segs))

\* The paths get_image_base64 is called with: up to MaxSegments segments,
\* relative, from the root, or with two slashes in front.
PathInputs ==
    LET rel == {relative(segs) :
                   segs \in UNION {[1..n -> PathSegments] : n \in 1..MaxSegments}}
    IN rel \cup {Slash \o p : p \in rel} \cup {Slash \o Slash \o p : p \in rel}

PathInit ==
    /\ now = StartTime /\ token = FALSE /\ sess = EmptySession
    /\ files = NoFiles /\ rows = {} /\ seq = 0 /\ cache = <<>>
    /\ pc = "read" /\ ev = NoEvent /\ loc = LocInit /\ log = <<>>
    /\ made = <<>> /\ evals = <<>> /\ win = WinInit /\ acq = <<>>
    /\ raw = <<>> /\ vres = <<>>
    /\ snap = <<>> /\ b64 = <<>> /\ report = <<>>
    /\ path \in {<<p>> : p \in PathInputs}

ReadImage ==
    /\ pc = "read"
    /\ b64' = <<read_image_base64(path[1])>>
    /\ pc' = "idle"
    /\ UNCHANGED <<now, token, sess, files, rows, seq, cache, ev, loc, log,
                   made, evals, win, acq, raw, vres, snap, path, report>>

PathNext == ReadImage

PathSpec == PathInit /\ [][PathNext]_vars

(***************************************************************************)
(* FlagSpec: one browser session with a token that may be configured while *)
(* it lasts.  On an empty store its first run loads the samples, with      *)
(* every draw, before main initialises the session; on the store an        *)
(* earlier process left it can delete the one record and so load the       *)
(* samples again, with every draw, after that initialisation.              *)
(***************************************************************************)
FlagSubmit ==
    [NoEvent EXCEPT !.type = "submit", !.prompt = <<"a">>, !.style = "realistic"]

\* The Delete button followed here: that of the last sample.
FlagDeletes == {[NoEvent EXCEPT !.type = "delete", !.id = NumSamples]}

\* The answer of the remote service followed here: an image that fits.
FlagResponses ==
    {r \in Responses : r.status = HttpOk /\ r.w = MaxImageSide /\ r.h = MaxImageSide}

FlagRun(e) ==
    /\ pc = "idle"
    /\ CanOccur(e)
    /\ seq + IdsNeeded(e) <= MaxFlagId
    /\ e.type = "submit" => Get(sess, "request_count", 0) < MaxFlagCount
    /\ StartScript(e)

\* HUGGING_FACE_API_TOKEN is added to the secrets between two runs;
\* st.secrets.get (line 62) reads it in the next generate_image.
ConfigureToken ==
    /\ pc = "idle"
    /\ ~token
    /\ token' = TRUE
    /\ UNCHANGED <<now, sess, files, rows, seq, cache, pc, ev, loc, log, history>>

FlagNext ==
    \/ FlagRun(ViewEvent)
    \/ FlagRun(FlagSubmit)
    \/ \E e \in FlagDeletes : FlagRun(e)
    \/ ConfigureToken
    \/ Validate
    \/ RateLimitStep
    \/ Generate
    \/ DemoSleep
    \/ \E resp \in FlagResponses : Post(resp)
    \/ SaveBlob
    \/ InsertRow
    \/ \E d \in SampleDraws : SampleSaved(d)
    \/ MainSaved
    \/ Rating
    \/ Tabs
    \/ DeleteBlob
    \/ DeleteRow
    \/ Rerun

\* The empty store, or the store left by an earlier process with the lowest
\* score and the first text on its record.
FlagInit ==
    Init \/ RestartWith(<<SampleScoreLo, "Great image, matches my expectation">>)

FlagSpec == FlagInit /\ [][FlagNext]_vars

(***************************************************************************)
(* Properties of the rate limiter (RLSpec).                                *)
(***************************************************************************)
\* C1: after 5 allowed calls and a 6th denied call in one window, a call
\* issued 61 seconds after the call that opened the window is allowed and
\* leaves the count at 1, wherever in the window the earlier calls fell; and
\* a call that does not reset the count leaves the window start
\* (last_request_time) as it was.
C1_ResetAfterWindow ==
    acq # <<>> =>
        /\ ( /\ acq[1].allowed_before = 5
             /\ acq[1].denied_before = 1
             /\ acq[1].prev_inside
             /\ acq[1].age = 61 )
           => (acq[1].allowed /\ sess["request_count"] = 1)
        /\ ~acq[1].reset => acq[1].kept_start

\* C2: between two resets of the count at most 5 calls are allowed, every
\* call increments the count (from 0 when it resets it), and once a call of
\* the window was denied every later call of the window is denied.
C2_Quota ==
    /\ win.allowed <= 5
    /\ acq # <<>> =>
        /\ sess["request_count"]
              = (IF acq[1].reset THEN 0 ELSE acq[1].count_before) + 1
        /\ (~acq[1].reset /\ acq[1].denied_before > 0) => ~acq[1].allowed

\* A seventh call in a window that holds 5 allowed calls and a denied one.
C2_Witness ==
    /\ acq # <<>>
    /\ ~acq[1].reset
    /\ acq[1].allowed_before = 5
    /\ acq[1].denied_before = 1
    /\ ~acq[1].allowed
    /\ sess["request_count"] = 7

(***************************************************************************)
(* Properties of generate_image (GenSpec, GenFairSpec).                    *)
(***************************************************************************)
EventsOf(l, op) == {i \in 1..Len(l) : l[i].op = op}

\* The call runs against the remote service: a token, and demo mode off.
LiveCall == token /\ Has(sess, "demo_mode") /\ ~sess["demo_mode"]

CallDone == pc \notin {"generate", "demo", "post", "backoff", "gen_error"}

C3_Safe ==
    LiveCall =>
        LET posts == EventsOf(log, "POST")
            statuses == EventsOf(log, "STATUS")
        IN /\ Cardinality(posts) <= 3
           /\ CallDone => Cardinality(posts) >= 1
           /\ \A i \in posts :
                 \/ i = 2 /\ log[i].n = 0
                 \/ /\ i > 4
                    /\ log[i - 2] = Ev("STATUS", 429, "")
                    /\ log[i - 1].op = "SLEEP"
                    /\ log[i - 3].op = "POST"
                    /\ log[i].n = log[i - 3].n + 1
           /\ \A i \in statuses :
                 /\ log[i - 1].op = "POST"
                 /\ log[i].n = 200 =>
                       /\ i = Len(log)
                       /\ pc = "save"
                       /\ loc.image # <<>>
                 /\ log[i].n = 429 =>
                       \/ i = Len(log) /\ pc = "backoff"
                       \/ i < Len(log) /\ log[i + 1].op = "SLEEP"
                 /\ log[i].n \notin {200, 429} =>
                       /\ \A j \in posts : j < i
                       /\ pc \in {"gen_error", "rating"}
                       /\ pc = "rating" =>
                             /\ loc.image = <<>>
                             /\ log[Len(log)].op = "error"
                             /\ log[Len(log)].n = log[i].n

\* C3: a live call of generate_image always terminates; it issues at least
\* 1 and at most 3 POSTs; a further POST is issued only directly after a 429
\* response; a 200 response ends the call with the image; any other status
\* that is not 429 ends the call with failure and without another POST.
C3_Terminates == []C3_Safe /\ <>CallDone

\* Three POSTs, each answered 429: the call has failed.
C3_Witness ==
    /\ LiveCall
    /\ pc = "rating"
    /\ Cardinality(EventsOf(log, "POST")) = 3
    /\ loc.image = <<>>

\* C4: when the first k attempts (k = 0, 1, 2) are answered 429 and the
\* next one 200, exactly k sleeps happen, the sleep after attempt i lasts
\* 2^i seconds and lies between the 429 and the next POST, and the call
\* returns the decoded image.
C4_Backoff ==
    ( /\ LiveCall
      /\ log # <<>>
      /\ log[Len(log)] = Ev("STATUS", 200, "")
      /\ \A i \in EventsOf(log, "STATUS") : i < Len(log) => log[i].n = 429 )
    => LET k == Cardinality(EventsOf(log, "POST")) - 1
       IN /\ k \in 0..2
          /\ Cardinality(EventsOf(log, "SLEEP")) = k
          /\ Len(log) = 3 * k + 3
          /\ \A i \in 0..(k - 1) :
                /\ log[3 * i + 3] = Ev("STATUS", 429, "")
                /\ log[3 * i + 4] = Ev("SLEEP", 2 ^ i, "")
                /\ log[3 * i + 5].op = "POST"
          /\ now = StartTime + (2 ^ k - 1)
          /\ pc = "save"
          /\ loc.resp # <<>> /\ loc.resp[1].status = 200
          /\ loc.image = <<[w |-> loc.resp[1].w, h |-> loc.resp[1].h,
                            kind |-> "decoded"]>>

\* 429, 429, 200.
C4_Witness ==
    /\ LiveCall
    /\ log # <<>>
    /\ log[Len(log)] = Ev("STATUS", 200, "")
    /\ Cardinality(EventsOf(log, "POST")) = 3
    /\ now = StartTime + 3

(***************************************************************************)
(* Demo (fallback) mode, in a session (Spec).                              *)
(***************************************************************************)
\* C5: when no token is configured or the demo flag is set (an absent flag
\* counts as set), generate_image performs no POST, returns an image, and
\* the image is 512x512, so the save_image that follows never rejects it as
\* too large; for every caller, prompt and style.
C5_Fallback ==
    /\ [][ (pc = "generate" /\ (~token \/ ~Has(sess, "demo_mode")
                                        \/ sess["demo_mode"]))
           => /\ pc' = "demo"
              /\ EventsOf(log', "POST") = EventsOf(log, "POST")
              /\ EventsOf(log', "error") = EventsOf(log, "error") ]_vars
    /\ [][ pc = "demo"
           => /\ loc'.image # <<>>
              /\ loc'.image[1].w = 512 /\ loc'.image[1].h = 512
              /\ loc'.image[1].w <= 4096 /\ loc'.image[1].h <= 4096
              /\ pc' = "save"
              /\ EventsOf(log', "POST") = EventsOf(log, "POST")
              /\ EventsOf(log', "error") = EventsOf(log, "error") ]_vars
    /\ [](\A i \in EventsOf(log, "too_large") :
             i > 1 /\ log[i - 1].op # "placeholder")

\* Without a token, a submission has been answered with the placeholder and
\* save_image has stored it.
C5_Witness ==
    /\ ~token
    /\ pc = "saved"
    /\ loc.caller = "main"
    /\ loc.image = <<[w |-> 512, h |-> 512, kind |-> "placeholder"]>>
    /\ loc.pid # <<>>
    /\ EventsOf(log, "POST") = {}

(***************************************************************************)
(* validate_prompt (ValSpec).                                              *)
(***************************************************************************)
AllBlank(p) == \A i \in 1..Len(p) : p[i] \in Whitespace

\* The positions of the characters of p that are not whitespace, ascending.
InkAt(p) ==
    LET ink(i) == p[i] \notin Whitespace
    IN SelectSeq([i \in 1..Len(p) |-> i], ink)

\* q is p with leading and trailing whitespace removed and every internal
\* run of whitespace replaced by one space.
Normalized(p, q) ==
    LET ip == InkAt(p)
        iq == InkAt(q)
    IN /\ Len(q) >= 1
       /\ q[1] # " " /\ q[Len(q)] # " "
       /\ \A i \in 1..Len(q) : q[i] \notin Whitespace \ {" "}
       /\ \A i \in 1..(Len(q) - 1) : ~(q[i] = " " /\ q[i + 1] = " ")
       /\ Len(ip) = Len(iq)
       /\ \A k \in 1..Len(ip) : p[ip[k]] = q[iq[k]]
       /\ \A k \in 2..Len(ip) : (ip[k] > ip[k - 1] + 1) <=> (iq[k] > iq[k - 1] + 1)

\* C6: validate_prompt rejects with the empty-prompt error exactly when the
\* input is empty after trimming, whatever its length; otherwise it rejects
\* with the too-long error exactly when the raw length exceeds 500;
\* otherwise it returns the normalized input, of 1 to 500 characters.
C6_Validate ==
    vres # <<>> =>
        /\ AllBlank(raw) <=> vres[1].error = "Prompt cannot be empty."
        /\ (~AllBlank(raw) /\ Len(raw) > 500)
              <=> vres[1].error = "Prompt is too long (max 500 characters)."
        /\ (AllBlank(raw) \/ Len(raw) > 500) <=> vres[1].value = <<>>
        /\ vres[1].value # <<>> =>
              /\ vres[1].error = ""
              /\ Normalized(raw, vres[1].value[1])
              /\ Len(vres[1].value[1]) \in 1..500

\* More than 500 characters, all of them whitespace: the empty-prompt error.
C6_Witness ==
    /\ vres # <<>>
    /\ Len(raw) > 500
    /\ AllBlank(raw)
    /\ vres[1] = [value |-> <<>>, error |-> "Prompt cannot be empty."]

(***************************************************************************)
(* The form-submission path of main (Spec).  The request is the part of    *)
(* the run from validate_prompt on.                                        *)
(***************************************************************************)
RequestLog(l) ==
    LET v == EventsOf(l, "validate_ok") \cup EventsOf(l, "validate_error")
    IN IF v = {} THEN <<>>
       ELSE SubSeq(l, CHOOSE i \in v : \A j \in v : i <= j, Len(l))

ImageReturned(l) ==
    \E i \in 1..Len(l) : l[i].op = "placeholder" \/ l[i] = Ev("STATUS", 200, "")

RequestFailed(l) ==
    \E i \in 1..Len(l) : l[i].op \in {"validate_error", "rate_denied", "error"}

C7_Order ==
    LET l == RequestLog(log)
    IN /\ \A i \in EventsOf(l, "generate") :
             /\ i = 3
             /\ l[1].op = "validate_ok"
             /\ l[2].op = "rate_ok"
       /\ \A i \in EventsOf(l, "too_large") \cup EventsOf(l, "write_blob")
                   \cup EventsOf(l, "insert") :
             ImageReturned(SubSeq(l, 1, i - 1))
       /\ RequestFailed(l) =>
             /\ ~ImageReturned(l)
             /\ EventsOf(l, "write_blob") \cup EventsOf(l, "insert") = {}

\* C7: in a request, generate_image is called only after validate_prompt
\* returned a prompt and check_rate_limit returned True, and save_image only
\* after generate_image returned an image; a request that ends in a
\* validation error, a rate-limit denial or a generation error adds no row
\* and writes no file: the table and the directory change in a request only
\* once the image is there.
C7_Gating ==
    /\ []C7_Order
    /\ [][ (RequestLog(log) # <<>> /\ (rows' # rows \/ files' # files))
           => /\ ImageReturned(RequestLog(log))
              /\ ~RequestFailed(RequestLog(log)) ]_vars

\* A request that ended in a generation error, with records in the store.
C7_Witness ==
    /\ pc = "tabs"
    /\ ev.type = "submit"
    /\ EventsOf(log, "error") # {}
    /\ rows # {}

Rejected(l) == EventsOf(l, "validate_error") # {}

\* C8: a request rejected by validate_prompt changes nothing: from the
\* rejection to the end of the run request_count, last_request_time,
\* demo_mode, the directory and the table stay as they were.
C8_Frame ==
    [][ (Rejected(log) \/ Rejected(log'))
        => /\ rows' = rows
           /\ files' = files
           /\ \A k \in {"request_count", "last_request_time", "demo_mode"} :
                 /\ Has(sess', k) <=> Has(sess, k)
                 /\ Has(sess, k) => sess'[k] = sess[k] ]_vars

\* A rejected submission at the end of its run, in a session that has used
\* part of its quota.
C8_Witness ==
    /\ pc = "tabs"
    /\ Rejected(log)
    /\ sess["request_count"] = 2
    /\ rows # {}

(***************************************************************************)
(* The record store (StoreSpec).                                           *)
(***************************************************************************)
\* C9: a row read from the table has no score and no feedback as long as
\* update_evaluation was not called for its id, and otherwise exactly the
\* score and feedback of the latest such call; its prompt, style, file name
\* and creation time are those save_image inserted.
C9_ReadAfterWrite ==
    \A r \in rows :
        /\ r.id \in DOMAIN made /\ r.id \in DOMAIN evals
        /\ evals[r.id] = <<>> => (r.score = <<>> /\ r.feedback = <<>>)
        /\ evals[r.id] # <<>> =>
              /\ r.score = <<evals[r.id][1].score>>
              /\ r.feedback = <<evals[r.id][1].feedback>>
        /\ r.prompt = made[r.id].prompt
        /\ r.expected_style = made[r.id].expected_style
        /\ r.filename = made[r.id].filename
        /\ r.created_at = made[r.id].created_at

\* A row evaluated with 10 and then with 1, beside a row never evaluated.
C9_Witness ==
    /\ pc = "store"
    /\ Len(log) = 2
    /\ log[1].op = "update_evaluation"
    /\ log[2] = Ev("score_before", 10, "")
    /\ \E r, q \in rows :
          /\ r.id = log[1].n
          /\ r.score = <<1>> /\ r.feedback = <<"">>
          /\ q.id # r.id
          /\ q.score = <<>>

\* C10: when delete_image(id, filename) has returned, the table has no row
\* with that id and the directory no file of that name, whether or not they
\* were there when it was called.
C10_DeletePost ==
    (pc = "rerun" /\ loc.caller = "store") =>
        /\ \A r \in rows : r.id # loc.pid[1]
        /\ loc.fname[1] \notin DOMAIN files

\* delete_image has returned from a call that found neither file nor row.
C10_Witness ==
    /\ pc = "rerun"
    /\ loc.caller = "store"
    /\ Len(log) = 3
    /\ log[2].op = "remove_blob" /\ log[2].s = "absent"
    /\ log[3].op = "delete_row" /\ log[3].s = "absent"

(***************************************************************************)
(* Identity and blobs of the records (StoreSpec).                          *)
(***************************************************************************)
\* C11: every save_image that inserts a row returns an id greater than every
\* id returned before, whatever rows were deleted in between, and the id is
\* the id of one row only.
C11_FreshIds ==
    [][ (pc = "insert" /\ pc' = "saved")
        => /\ loc'.pid # <<>>
           /\ \A i \in DOMAIN made : loc'.pid[1] > i
           /\ Cardinality({r \in rows' : r.id = loc'.pid[1]}) = 1
           /\ \A r \in rows : r.id # loc'.pid[1] ]_vars

\* save_image has returned 2 after the row with id 1, then the highest id,
\* was deleted.
C11_Witness ==
    /\ pc = "saved"
    /\ loc.caller = "store"
    /\ loc.pid = <<2>>
    /\ {r.id : r \in rows} = {2}

\* C12: after any sequence of save_image, update_evaluation and delete_image
\* calls, also in quick succession, every row that is not in the middle of
\* its own delete_image has a file name under which a file exists.
C12_BlobExists ==
    \A r \in rows :
        ~(pc = "delete_row" /\ loc.pid = <<r.id>>) => r.filename \in DOMAIN files

\* C13: no two rows have the same file name; save_image writes a name no
\* row refers to and never overwrites a file, also when two calls fall into
\* the same second.
C13_ExclusiveBlobs ==
    /\ \A r, q \in rows : r.id # q.id => r.filename # q.filename
    /\ \A i \in EventsOf(log, "write_blob") : log[i].s = "new"
    /\ pc = "insert" => \A r \in rows : r.filename # loc.fname[1]

(***************************************************************************)
(* The listing (ListSpec).                                                 *)
(***************************************************************************)
\* C14: the listing get_all_prompts returns at time t is ordered by
\* created_at, newest first, and is the table as it was at some time
\* between t - 60 and t: a stale listing is never more than 60 seconds old.
C14_Listing ==
    (log # <<>> /\ log[1].op = "get_all_prompts") =>
        /\ cache # <<>> /\ snap # <<>>
        /\ LET val == cache[1].val
               t == log[1].n
           IN /\ \A i, j \in 1..Len(val) :
                    i < j => val[i].created_at >= val[j].created_at
              /\ {val[i] : i \in 1..Len(val)} = snap[1].rows
              /\ Len(val) = Cardinality(snap[1].rows)
              /\ snap[1].at <= t
              /\ t - snap[1].at <= 60

\* A listing served 59 seconds after its SELECT, from a table that has
\* changed since: it shows a deleted row, misses a new one and shows an old
\* score.
C14_Witness ==
    /\ log # <<>> /\ log[1].op = "get_all_prompts"
    /\ snap # <<>>
    /\ log[1].n - snap[1].at = 59
    /\ \E r \in snap[1].rows : \A q \in rows : q.id # r.id
    /\ \E q \in rows : \A r \in snap[1].rows : q.id # r.id

(***************************************************************************)
(* The evaluation report (AggSpec).                                        *)
(***************************************************************************)
RECURSIVE Total(_, _)
Total(val, I) ==
    IF I = {} THEN 0
    ELSE LET i == CHOOSE x \in I : TRUE
         IN val[i].score[1] + Total(val, I \ {i})

WithoutUnscored(val) == SelectSeq(val, LAMBDA p : p.score # <<>>)

\* C15: the report holds a style exactly when a row with a score has that
\* style, with the sum and the count of those scores; the overall average
\* is the sum and the count of all scores present, and the "no evaluations"
\* notice replaces it when no row has a score; rows without a score change
\* nothing.
C15_Aggregate ==
    report # <<>> =>
        LET val == cache[1].val
            r == report[1]
            I == {i \in 1..Len(val) : val[i].score # <<>>}
        IN /\ r.none <=> I = {}
           /\ r.none => r.overall = <<>>
           /\ I # {} => /\ r.overall # <<>>
                        /\ r.overall[1].sum = Total(val, I)
                        /\ r.overall[1].count = Cardinality(I)
           /\ DOMAIN r.by \subseteq Styles
           /\ \A s \in Styles :
                 LET Is == {i \in I : val[i].expected_style = s}
                 IN /\ s \in DOMAIN r.by <=> Is # {}
                    /\ Is # {} => /\ r.by[s].sum = Total(val, Is)
                                  /\ r.by[s].count = Cardinality(Is)
           /\ r = evaluation_report(WithoutUnscored(val))

\* The report of realistic 6, realistic 8 and an unscored row, cartoon 10
\* missing: 14 / 2 overall and for realistic, no entry for cartoon, 7.0 shown.
C15_Witness ==
    /\ report # <<>>
    /\ Len(cache[1].val) = 3
    /\ \E i \in 1..3 : cache[1].val[i].score = <<>>
                       /\ cache[1].val[i].expected_style = "cartoon"
    /\ ~report[1].none
    /\ report[1].overall[1] = [sum |-> 14, count |-> 2, tenths |-> 70]
    /\ DOMAIN report[1].by = {"realistic"}
    /\ report[1].by["realistic"] = [sum |-> 14, count |-> 2, tenths |-> 70]

(***************************************************************************)
(* Reading an image by its path (PathSpec).                                *)
(***************************************************************************)
\* The path names something below generated_images: its segments, once
\* resolved, begin with those of the directory.
InsideImagesDir(p) ==
    LET named(c) == c # <<>>
        full == SelectSeq(segments(abspath(p)), named)
        base == SelectSeq(segments(abspath(ImagesDir)), named)
    IN Len(full) > Len(base) /\ SubSeq(full, 1, Len(base)) = base

\* C16: get_image_base64 returns bytes only for a path inside
\* generated_images; a path that resolves outside it, a directory next to it
\* whose name begins with "generated_images" included, gets None.
C16_InsideOnly ==
    (b64 # <<>> /\ b64[1] # <<>> /\ b64[1][1].kind = "base64")
        => InsideImagesDir(path[1])

(***************************************************************************)
(* The two steps of save_image and of delete_image (CrashSpec).            *)
(***************************************************************************)
NewRows == {r \in rows' : \A q \in rows : q.id # r.id}

GoneRows == {r \in rows : \A q \in rows' : q.id # r.id}

\* C17: save_image checks the size first and writes nothing for an image
\* with a side over 4096; otherwise it writes the file in one step and
\* inserts the row in a later one, so a new row always finds its file
\* written, and a call cut short between the two steps leaves a file
\* without a row and nothing else.
C17_BlobBeforeRow ==
    [][ /\ \A r \in NewRows :
              /\ pc = "insert"
              /\ r.filename = loc.fname[1]
              /\ r.filename \in DOMAIN files
              /\ files' = files
              /\ log[Len(log)] = Ev("write_blob", r.filename, "new")
                 \/ log[Len(log)] = Ev("write_blob", r.filename, "overwrite")
        /\ (pc = "save" /\ TooLarge(loc.image[1])) =>
              /\ files' = files /\ rows' = rows /\ seq' = seq
              /\ pc' = "saved" /\ loc'.pid = <<>> /\ loc'.fname = <<>>
        /\ (pc = "save" /\ ~TooLarge(loc.image[1])) =>
              /\ rows' = rows
              /\ pc' = "insert"
              /\ loc'.fname # <<>> /\ loc'.fname[1] \in DOMAIN files'
              /\ files'[loc'.fname[1]] = loc.image[1]
        /\ (pc = "insert" /\ pc' = "store") =>
              /\ rows' = rows /\ files' = files
              /\ loc.fname[1] \in DOMAIN files ]_vars

\* save_image was cut short after its first step: the file is there and no
\* row names it.
C17_Witness ==
    /\ pc = "store"
    /\ log # <<>> /\ log[Len(log)] = Ev("crash", 0, "insert")
    /\ rows = {}
    /\ DOMAIN files # {}
    /\ \E i \in EventsOf(log, "write_blob") : log[i].n \in DOMAIN files

\* C18: delete_image removes the file in one step and deletes the row in a
\* later one: between the two, and after a call cut short there, the row is
\* still in the table and its file is gone; a row never leaves the table
\* while its file is on disk.
C18_BlobGoneFirst ==
    [][ /\ pc = "delete_blob" =>
              /\ rows' = rows
              /\ pc' = "delete_row"
              /\ loc.fname[1] \notin DOMAIN files'
        /\ pc = "delete_row" =>
              /\ loc.fname[1] \notin DOMAIN files
              /\ files' = files
        /\ (pc = "delete_row" /\ pc' = "store") => rows' = rows
        /\ \A r \in GoneRows :
              /\ pc = "delete_row"
              /\ r.id = loc.pid[1]
              /\ r.filename \notin DOMAIN files
              /\ r.filename \notin DOMAIN files' ]_vars

\* delete_image was cut short after its first step: it removed the file,
\* and the row it was to delete is still in the table.
C18_Witness ==
    /\ pc = "store"
    /\ Len(log) = 3
    /\ log[1].op = "delete_image"
    /\ log[2] = Ev("remove_blob", log[2].n, "removed")
    /\ log[3] = Ev("crash", 0, "delete_row")
    /\ \E r \in rows : r.id = log[1].n /\ r.filename = log[2].n
                       /\ r.filename \notin DOMAIN files

\* C19: update_evaluation(id, score, feedback) changes the score and the
\* feedback of the row with that id and nothing else: the other rows, the
\* other columns of that row and the files stay as they were; when no row
\* has the id nothing changes and no error is reported.
C19_UpdateFrame ==
    [][ (/\ pc = "store" /\ pc' = "store" /\ now' = now
         /\ log' # <<>> /\ log'[1].op = "update_evaluation" /\ log'[1].n # 0)
        => LET id == log'[1].n
           IN /\ files' = files /\ seq' = seq /\ cache' = cache
              /\ \A r \in rows : r.id # id => r \in rows'
              /\ \A r \in rows' : r.id # id => r \in rows
              /\ \A r \in rows : r.id = id =>
                    \E q \in rows' :
                       q = [r EXCEPT !.score = q.score, !.feedback = q.feedback]
              /\ Cardinality(rows') = Cardinality(rows)
              /\ (\A r \in rows : r.id # id) =>
                    /\ rows' = rows
                    /\ EventsOf(log', "st.error") = {} ]_vars

\* update_evaluation has returned from a call for the id of a row that was
\* deleted, with another row in the table, and reported nothing.
C19_Witness ==
    /\ pc = "store"
    /\ log # <<>> /\ log[1].op = "update_evaluation"
    /\ log[1].n \in DOMAIN made
    /\ \A r \in rows : r.id # log[1].n
    /\ rows # {}
    /\ EventsOf(log, "st.error") = {}

(***************************************************************************)
(* The demo flag over a session (FlagSpec).                                *)
(***************************************************************************)
\* The session has been initialised by main and its demo flag is set.
FlagSet(ss) ==
    Has(ss, "reset_session") /\ Has(ss, "demo_mode") /\ ss["demo_mode"]

\* load_sample_data begins: the generate_image of the first sample is next.
LoadStarts ==
    /\ pc \in {"idle", "rerun"}
    /\ pc' = "generate"
    /\ loc'.caller = "sample"

\* Samples have been loaded since the session began.
LoadedHere ==
    \E id \in DOMAIN made :
        /\ made[id].created_at >= StartTime
        /\ \E i \in 1..NumSamples : made[id].prompt = sample_data[i].prompt

\* C20, amended: once main has initialised the session, a demo flag that is
\* set stays set; a generate_image that finds no token sets it, and so does a
\* sample loading that runs after the initialisation, which it does when a
\* delete has emptied the table; every generate_image that runs with the
\* flag set returns the placeholder without a POST, token or not.  The
\* initialisation itself leaves the flag unset, also when the samples were
\* loaded just before it, in the first run of the session.
C20_FlagSticks ==
    /\ [][ FlagSet(sess) => FlagSet(sess') ]_vars
    /\ [][ (pc = "generate" /\ Has(sess, "reset_session") /\ ~token)
           => FlagSet(sess') ]_vars
    /\ [][ (pc = "rerun" /\ rows = {}) => LoadStarts ]_vars
    /\ [][ (LoadStarts /\ Has(sess, "reset_session"))
           => (rows = {} /\ FlagSet(sess')) ]_vars
    /\ [][ (pc = "generate" /\ FlagSet(sess))
           => /\ pc' = "demo"
              /\ EventsOf(log', "POST") = EventsOf(log, "POST") ]_vars
    /\ [][ (pc = "demo" /\ FlagSet(sess))
           => /\ loc'.image = <<Placeholder>>
              /\ pc' = "save"
              /\ EventsOf(log', "POST") = EventsOf(log, "POST") ]_vars
    /\ [][ (~Has(sess, "reset_session") /\ Has(sess', "reset_session"))
           => ~sess'["demo_mode"] ]_vars

\* With a token configured and no submission made in the session so far (no
\* generate_image has met a missing token), the only record was deleted, the
\* samples were loaded again, and each of the three generate_image calls was
\* answered with the placeholder, without a POST.
C20_Witness ==
    /\ token
    /\ pc = "saved"
    /\ loc.caller = "sample"
    /\ loc.idx = NumSamples
    /\ loc.image = <<Placeholder>>
    /\ FlagSet(sess)
    /\ sess["request_count"] = 0
    /\ {r.id : r \in rows} = (NumSamples + 1)..(2 * NumSamples)
    /\ Cardinality(EventsOf(log, "placeholder")) = NumSamples
    /\ EventsOf(log, "POST") = {}

\* C20 as stated: a set flag stays set after the initialisation, and once a
\* generate_image has found no token, or the samples have been loaded in the
\* session, every later generate_image of main takes the demo branch and
\* adds no POST, token or not.
C20_Original ==
    /\ [][ FlagSet(sess) => FlagSet(sess') ]_vars
    /\ [][ (pc = "generate" /\ Has(sess, "reset_session") /\ ~token)
           => FlagSet(sess') ]_vars
    /\ [][ (pc = "generate" /\ loc.caller = "main"
              /\ (FlagSet(sess) \/ LoadedHere))
           => pc' = "demo" ]_vars
    /\ [][ (pc = "post" /\ loc.caller = "main" /\ LoadedHere)
           => EventsOf(log', "POST") = EventsOf(log, "POST") ]_vars

====
